---- MODULE Spec2Model ----
(***************************************************************************)
(* Employee data cleaning pipeline                                         *)
(* (notebooks/data/cleaned/scripts/data_cleaning.py).                      *)
(*                                                                         *)
(* A table (DataFrame) is a sequence of rows; a row maps column names to   *)
(* cells.  A cell is missing (NaN / NaT), a text, a number, a date or a    *)
(* boolean.  A text is a sequence of segments: a segment is one whitespace *)
(* character or a whitespace-free chunk (single characters wherever the    *)
(* pipeline looks inside a text: names, emails, numbers).                  *)
(***************************************************************************)
EXTENDS Integers, Sequences, FiniteSets, TLC

VARIABLES source, df, pc, trace, report, out, err

vars == <<source, df, pc, trace, report, out, err>>

(* Largest number of rows of an input table whose rows are drawn from a    *)
(* small set of payloads (MaxRows) and from a wide one (MaxRowsWide).      *)
MaxRows == 3

MaxRowsWide == 2

-----------------------------------------------------------------------------
(* Cells *)

NA == [k |-> "na", s |-> <<>>, n |-> 0]

Str(s) == [k |-> "str", s |-> s, n |-> 0]

Num(n) == [k |-> "num", s |-> <<>>, n |-> n]

Date(d) == [k |-> "date", s |-> <<>>, n |-> d]

Bool(b) == [k |-> "bool", s |-> <<>>, n |-> IF b THEN 1 ELSE 0]

(* A column that does not exist in the table (email_valid before step 10). *)
Absent == [k |-> "absent", s |-> <<>>, n |-> 0]

IsNA(c) == c.k = "na"

IsStr(c) == c.k = "str"

(* x < y on numeric / datetime cells: False when either side is NaN / NaT. *)
CellLt(x, y) == x.k \in {"num", "date"} /\ y.k = x.k /\ x.n < y.n

Columns ==
  {"index", "employee_id", "first_name", "last_name", "email", "gender",
   "department", "currency", "country", "state", "city", "salary",
   "manager_id", "hire_date", "exit_date", "email_valid"}

-----------------------------------------------------------------------------
(* Text *)

Whitespace == {" ", "\n", "\t"}

RECURSIVE Join(_)
Join(s) == IF s = <<>> THEN "" ELSE Head(s) \o Join(Tail(s))

RECURSIVE LStrip(_)
LStrip(s) ==
  IF s # <<>> /\ Head(s) \in Whitespace THEN LStrip(Tail(s)) ELSE s

RECURSIVE RStrip(_)
RStrip(s) ==
  IF s # <<>> /\ s[Len(s)] \in Whitespace
  THEN RStrip(SubSeq(s, 1, Len(s) - 1))
  ELSE s

(* Faulty variant: strips the left side only (str.lstrip). *)
StripLeftOnly(s) == LStrip(s)

(* str.strip() *)
Strip(s) == RStrip(LStrip(s))

UpperOf == [c \in {"a", "b", "n"} |->
              CASE c = "a" -> "A" [] c = "b" -> "B" [] c = "n" -> "N"]

LowerOf == [c \in {"A", "B", "N"} |->
              CASE c = "A" -> "a" [] c = "B" -> "b" [] c = "N" -> "n"]

IsCased(c) == c \in DOMAIN UpperOf \/ c \in DOMAIN LowerOf

ToUpper(c) == IF c \in DOMAIN UpperOf THEN UpperOf[c] ELSE c

ToLower(c) == IF c \in DOMAIN LowerOf THEN LowerOf[c] ELSE c

(* str.lower() *)
Lower(s) == [i \in 1..Len(s) |-> ToLower(s[i])]

(* Faulty variant: only whitespace separates words *)
TitleWhitespaceOnly(s) ==
  [i \in 1..Len(s) |->
     IF i > 1 /\ s[i - 1] \notin Whitespace THEN ToLower(s[i]) ELSE ToUpper(s[i])]

(* str.title(): a cased character is upper-cased when the character before *)
(* it is not cased (or there is none), lower-cased otherwise.              *)
Title(s) ==
  [i \in 1..Len(s) |->
     IF i > 1 /\ IsCased(s[i - 1]) THEN ToLower(s[i]) ELSE ToUpper(s[i])]

(* astype(str) of one cell: NaN becomes the text "nan". *)
AsText(c) == IF IsStr(c) THEN c.s ELSE <<"n", "a", "n">>

-----------------------------------------------------------------------------
(* Numbers.  A numeric cell holds hundredths: "4,500.00" is 450000.  The   *)
(* texts of the model carry at most two fractional digits.                 *)

DigitChars == <<"0", "1", "2", "3", "4", "5", "6", "7", "8", "9">>

IsDigit(c) == \E i \in 1..Len(DigitChars) : DigitChars[i] = c

DigitVal(c) == (CHOOSE i \in 1..Len(DigitChars) : DigitChars[i] = c) - 1

RECURSIVE IntVal(_)
IntVal(s) ==
  IF s = <<>> THEN 0
  ELSE IntVal(SubSeq(s, 1, Len(s) - 1)) * 10 + DigitVal(s[Len(s)])

(* .str.replace(',', '') *)
RemoveCommas(s) == SelectSeq(s, LAMBDA c : c # ",")

(* pd.to_numeric(text, errors='coerce'): an optional sign, digits with at  *)
(* most one decimal point and at least one digit; anything else is NaN.    *)
ParseNumber(s) ==
  LET body == IF s # <<>> /\ Head(s) \in {"-", "+"} THEN Tail(s) ELSE s
      neg  == s # <<>> /\ Head(s) = "-"
      dots == {i \in 1..Len(body) : body[i] = "."}
      p    == IF dots = {} THEN Len(body) + 1
              ELSE CHOOSE i \in dots : \A j \in dots : i <= j
      ip   == SubSeq(body, 1, p - 1)
      fp   == SubSeq(body, p + 1, Len(body))
      ok   == /\ Cardinality(dots) <= 1
              /\ \A i \in 1..Len(ip) : IsDigit(ip[i])
              /\ \A i \in 1..Len(fp) : IsDigit(fp[i])
              /\ Len(ip) + Len(fp) >= 1
      frac == IF Len(fp) = 0 THEN 0
              ELSE IF Len(fp) = 1 THEN DigitVal(fp[1]) * 10
              ELSE DigitVal(fp[1]) * 10 + DigitVal(fp[2])
      mag  == IntVal(ip) * 100 + frac
  IN  IF ok THEN Num(IF neg THEN 0 - mag ELSE mag) ELSE NA

(* pd.to_numeric on one cell *)
ToNumeric(c) == IF IsStr(c) THEN ParseNumber(c.s) ELSE c

(* Series.abs() on one cell: NaN stays NaN. *)
Abs(c) == IF c.k = "num" /\ c.n < 0 THEN Num(0 - c.n) ELSE c

-----------------------------------------------------------------------------
(* Dates.  A date text is a sequence of number tokens and separators; a    *)
(* date cell holds year * 10000 + month * 100 + day.                       *)

TokVal(t) ==
  CASE t = "01" -> 1 [] t = "02" -> 2 [] t = "05" -> 5 [] t = "12" -> 12
    [] t = "13" -> 13 [] t = "31" -> 31
    [] t = "2020" -> 2020 [] t = "2021" -> 2021
    [] OTHER -> 0 - 1

IsYearTok(t) == TokVal(t) >= 1000

IsTwoDigitTok(t) == TokVal(t) >= 0 /\ TokVal(t) < 100

IsLeap(y) == (y % 4 = 0 /\ y % 100 # 0) \/ y % 400 = 0

DaysInMonth(y, m) ==
  IF m = 2 THEN (IF IsLeap(y) THEN 29 ELSE 28)
  ELSE IF m \in {4, 6, 9, 11} THEN 30 ELSE 31

ValidYMD(y, m, d) == m >= 1 /\ m <= 12 /\ d >= 1 /\ d <= DaysInMonth(y, m)

MakeDate(y, m, d) == IF ValidYMD(y, m, d) THEN Date(y * 10000 + m * 100 + d) ELSE NA

(* pd.to_datetime(text, format='mixed', dayfirst=True, errors='coerce'):   *)
(* YYYY-MM-DD is read as ISO 8601; A/B/YYYY is read day first, unless B    *)
(* cannot be a month and A can; anything else is NaT.                      *)
ParseDate(s) ==
  IF Len(s) = 5 /\ s[2] = "-" /\ s[4] = "-" /\ IsYearTok(s[1])
     /\ IsTwoDigitTok(s[3]) /\ IsTwoDigitTok(s[5])
  THEN MakeDate(TokVal(s[1]), TokVal(s[3]), TokVal(s[5]))
  ELSE IF Len(s) = 5 /\ s[2] = "/" /\ s[4] = "/" /\ IsYearTok(s[5])
          /\ IsTwoDigitTok(s[1]) /\ IsTwoDigitTok(s[3])
  THEN LET a == TokVal(s[1])
           b == TokVal(s[3])
           y == TokVal(s[5])
       IN  IF b <= 12 THEN MakeDate(y, b, a) ELSE MakeDate(y, a, b)
  ELSE NA

(* pd.to_datetime on one cell *)
ToDatetime(c) == IF IsStr(c) THEN ParseDate(c.s) ELSE c

-----------------------------------------------------------------------------
(* Tables *)

(* df[col] = values *)
SetColumn(t, col, values) ==
  [i \in 1..Len(t) |-> [t[i] EXCEPT ![col] = values[i]]]

(* select_dtypes(include=['object']): a column holding at least one text.  *)
(* A column of missing values only is float64, not object.                 *)
IsObject(t, col) == \E i \in 1..Len(t) : IsStr(t[i][col])

(* Faulty variant: a value is replaced when it starts with a key. *)
ReplacePrefix(m, c) ==
  IF IsStr(c) /\ c.s # <<>> /\ c.s[1] \in DOMAIN m THEN Str(m[c.s[1]]) ELSE c

(* Series.replace(mapping): exact match of the whole value against the     *)
(* keys; a value that is no key is left as it is.                          *)
Replace(m, c) ==
  IF IsStr(c) /\ Join(c.s) \in DOMAIN m THEN Str(m[Join(c.s)]) ELSE c

-----------------------------------------------------------------------------
(* Step 3: clean_strings *)

(* .str on a column that is not of object dtype raises AttributeError *)
clean_strings_raises(t) ==
  \E col \in {"first_name", "last_name", "email", "city"} : ~IsObject(t, col)

clean_strings(t) ==
  [i \in 1..Len(t) |->
     [col \in Columns |->
        LET c == IF IsObject(t, col)
                 THEN Str(Strip(AsText(t[i][col])))
                 ELSE t[i][col]
        IN  IF col \in {"first_name", "last_name", "city"}
            THEN Str(Title(c.s))
            ELSE IF col = "email" THEN Str(Lower(c.s)) ELSE c]]

-----------------------------------------------------------------------------
(* Step 4: convert_data_types *)

convert_data_types(t) ==
  LET t1 == SetColumn(t, "salary",
              [i \in 1..Len(t) |->
                 ParseNumber(Strip(RemoveCommas(AsText(t[i]["salary"]))))])
      t2 == SetColumn(t1, "manager_id",
              [i \in 1..Len(t) |-> ToNumeric(t[i]["manager_id"])])
      t3 == SetColumn(t2, "hire_date",
              [i \in 1..Len(t) |-> ToDatetime(t[i]["hire_date"])])
  IN  SetColumn(t3, "exit_date",
        [i \in 1..Len(t) |-> ToDatetime(t[i]["exit_date"])])

-----------------------------------------------------------------------------
(* Steps 5-9: category standardization *)

gender_mapping ==
  ("M" :> <<"Male">>) @@ ("Male" :> <<"Male">>) @@
  ("F" :> <<"Female">>) @@ ("Female" :> <<"Female">>) @@
  ("Other" :> <<"Other">>)

(* Faulty variant: an abbreviation is mapped to another key's spelling. *)
dept_mapping_plural ==
  ("HR" :> <<"Human", " ", "Resources">>) @@
  ("H.R" :> <<"Human", " ", "Resource">>) @@
  ("H.R." :> <<"Human", " ", "Resource">>) @@
  ("Human Resources" :> <<"Human", " ", "Resource">>) @@
  ("Human Resource" :> <<"Human", " ", "Resource">>) @@
  ("IT" :> <<"Information", " ", "Technology">>) @@
  ("Information Technology" :> <<"Information", " ", "Technology">>) @@
  ("Ops" :> <<"Operations">>) @@ ("Operations" :> <<"Operations">>) @@
  ("Eng" :> <<"Engineering">>) @@ ("Engineering" :> <<"Engineering">>) @@
  ("FIN" :> <<"Finance">>) @@ ("Finance" :> <<"Finance">>) @@
  ("sales" :> <<"Sales">>) @@ ("Sales" :> <<"Sales">>)

dept_mapping ==
  ("HR" :> <<"Human", " ", "Resource">>) @@
  ("H.R" :> <<"Human", " ", "Resource">>) @@
  ("H.R." :> <<"Human", " ", "Resource">>) @@
  ("Human Resources" :> <<"Human", " ", "Resource">>) @@
  ("Human Resource" :> <<"Human", " ", "Resource">>) @@
  ("IT" :> <<"Information", " ", "Technology">>) @@
  ("Information Technology" :> <<"Information", " ", "Technology">>) @@
  ("Ops" :> <<"Operations">>) @@ ("Operations" :> <<"Operations">>) @@
  ("Eng" :> <<"Engineering">>) @@ ("Engineering" :> <<"Engineering">>) @@
  ("FIN" :> <<"Finance">>) @@ ("Finance" :> <<"Finance">>) @@
  ("sales" :> <<"Sales">>) @@ ("Sales" :> <<"Sales">>)

currency_map ==
  ("ZAR" :> <<"ZAR">>) @@ ("R" :> <<"ZAR">>) @@ ("$" :> <<"USD">>) @@
  ("GBP" :> <<"GBP">>) @@ ("£" :> <<"GBP">>) @@ ("Â£" :> <<"GBP">>) @@
  ("USD" :> <<"USD">>)

country_mapping ==
  ("south-africa" :> <<"South", " ", "Africa">>) @@
  ("South Africa" :> <<"South", " ", "Africa">>) @@
  ("SA" :> <<"South", " ", "Africa">>) @@
  ("ZA" :> <<"South", " ", "Africa">>) @@
  ("UK" :> <<"United", " ", "Kingdom">>) @@
  ("U.K." :> <<"United", " ", "Kingdom">>) @@
  ("United Kingdom" :> <<"United", " ", "Kingdom">>) @@
  ("USA" :> <<"United", " ", "States">>) @@
  ("United States" :> <<"United", " ", "States">>)

state_mapping ==
  ("KZN" :> <<"KwaZulu-Natal">>) @@
  ("KwaZulu-Natal" :> <<"KwaZulu-Natal">>) @@
  ("Western Cape" :> <<"Western", " ", "Cape">>) @@
  ("Gauteng" :> <<"Gauteng">>) @@
  ("Limpopo" :> <<"Limpopo">>)

standardize_gender(t) ==
  SetColumn(t, "gender",
    [i \in 1..Len(t) |-> Replace(gender_mapping, t[i]["gender"])])

standardize_department(t) ==
  SetColumn(t, "department",
    [i \in 1..Len(t) |->
       Replace(dept_mapping, Str(Strip(AsText(t[i]["department"]))))])

standardize_currency(t) ==
  SetColumn(t, "currency",
    [i \in 1..Len(t) |-> Replace(currency_map, t[i]["currency"])])

standardize_country(t) ==
  SetColumn(t, "country",
    [i \in 1..Len(t) |-> Replace(country_mapping, t[i]["country"])])

standardize_state(t) ==
  SetColumn(t, "state",
    [i \in 1..Len(t) |-> Replace(state_mapping, t[i]["state"])])

-----------------------------------------------------------------------------
(* Step 10: validate_emails *)

(* Faulty variant: "contains an @ and a dot after it". *)
EmailMatchLoose(s) ==
  \E i \in 1..Len(s), j \in 1..Len(s) : i < j /\ s[i] = "@" /\ s[j] = "."

(* re.match(r'.+@.+\..+', s): anchored at the start only; '.' matches any  *)
(* character except a newline.                                             *)
EmailMatch(s) ==
  \E i \in 2..Len(s) :
    \E j \in (i + 2)..(Len(s) - 1) :
      /\ s[i] = "@"
      /\ s[j] = "."
      /\ \A k \in 1..(i - 1) : s[k] # "\n"
      /\ \A k \in (i + 1)..(j - 1) : s[k] # "\n"
      /\ s[j + 1] # "\n"

(* df['email'].str.match(email_pattern, na=False) *)
validate_emails(t) ==
  SetColumn(t, "email_valid",
    [i \in 1..Len(t) |->
       Bool(IsStr(t[i]["email"]) /\ EmailMatch(t[i]["email"].s))])

-----------------------------------------------------------------------------
(* Step 11: fix_negative_salaries *)

(* Faulty variant: <= in place of <. *)
negative_salaries_or_zero(t) ==
  {i \in 1..Len(t) :
     CellLt(t[i]["salary"], Num(0)) \/ t[i]["salary"] = Num(0)}

(* df[df['salary'] < 0] *)
negative_salaries(t) == {i \in 1..Len(t) : CellLt(t[i]["salary"], Num(0))}

(* Faulty variant: the negative salaries are blanked instead of negated. *)
fix_negative_salaries_blank(t) ==
  SetColumn(t, "salary",
    [i \in 1..Len(t) |->
       IF i \in negative_salaries(t) THEN NA ELSE t[i]["salary"]])

fix_negative_salaries(t) ==
  IF negative_salaries(t) # {}
  THEN SetColumn(t, "salary", [i \in 1..Len(t) |-> Abs(t[i]["salary"])])
  ELSE t

-----------------------------------------------------------------------------
(* Step 12: validate_dates *)

(* df[df['exit_date'] < df['hire_date']] *)
invalid_dates(t) ==
  {i \in 1..Len(t) : CellLt(t[i]["exit_date"], t[i]["hire_date"])}

(* Faulty variant: only the first offending row is corrected. *)
validate_dates_first_only(t) ==
  SetColumn(t, "exit_date",
    [i \in 1..Len(t) |->
       IF i \in invalid_dates(t) /\ \A j \in invalid_dates(t) : i <= j
       THEN NA ELSE t[i]["exit_date"]])

(* Faulty variant: the two dates of an offending row are swapped. *)
validate_dates_swapped(t) ==
  SetColumn(
    SetColumn(t, "exit_date",
      [i \in 1..Len(t) |->
         IF i \in invalid_dates(t) THEN t[i]["hire_date"] ELSE t[i]["exit_date"]]),
    "hire_date",
    [i \in 1..Len(t) |->
       IF i \in invalid_dates(t) THEN t[i]["exit_date"] ELSE t[i]["hire_date"]])

validate_dates(t) ==
  IF invalid_dates(t) # {}
  THEN SetColumn(t, "exit_date",
         [i \in 1..Len(t) |->
            IF i \in invalid_dates(t) THEN NA ELSE t[i]["exit_date"]])
  ELSE t

-----------------------------------------------------------------------------
(* Step 14: remove_duplicates *)

(* Faulty variant: missing keys never compare equal (NaN != NaN). *)
duplicated_nan_distinct(t) ==
  {i \in 1..Len(t) :
     \E j \in 1..(i - 1) :
       /\ ~IsNA(t[i]["employee_id"])
       /\ t[j]["employee_id"] = t[i]["employee_id"]}

(* df['employee_id'].duplicated(): a row whose key occurs in an earlier    *)
(* row; missing keys compare equal to each other.                          *)
duplicated(t) ==
  {i \in 1..Len(t) :
     \E j \in 1..(i - 1) : t[j]["employee_id"] = t[i]["employee_id"]}

(* df.duplicated(subset=['employee_id'], keep=False) *)
duplicated_keep_false(t) ==
  {i \in 1..Len(t) :
     \E j \in 1..Len(t) : j # i /\ t[j]["employee_id"] = t[i]["employee_id"]}

RECURSIVE DropRows(_, _)
DropRows(t, drop) ==
  IF t = <<>> THEN <<>>
  ELSE LET rest == DropRows(SubSeq(t, 1, Len(t) - 1), drop)
       IN  IF Len(t) \in drop THEN rest ELSE Append(rest, t[Len(t)])

(* Faulty variant: keep='last'. *)
drop_duplicates_keep_last(t) ==
  DropRows(t, {i \in 1..Len(t) :
                 \E j \in (i + 1)..Len(t) :
                   t[j]["employee_id"] = t[i]["employee_id"]})

(* df.drop_duplicates(subset=['employee_id'], keep='first') *)
drop_duplicates(t) == DropRows(t, duplicated(t))

remove_duplicates(t) ==
  IF Cardinality(duplicated(t)) > 0 THEN drop_duplicates(t) ELSE t

-----------------------------------------------------------------------------
(* Step 16: export_cleaned_data *)

(* df.drop(columns=['email_valid']).to_csv(output_path, index=False) *)
export_rows(t) ==
  [i \in 1..Len(t) |->
     [col \in Columns \ {"email_valid", "index"} |-> t[i][col]]]

-----------------------------------------------------------------------------
(* main: the steps of the try block, in the order they are called *)

(* Faulty variant: duplicates are removed before the validators run. *)
main_steps_dedup_early ==
  <<"load_data", "explore_data", "clean_strings", "convert_data_types",
    "standardize_gender", "standardize_department", "standardize_currency",
    "standardize_country", "standardize_state", "remove_duplicates",
    "validate_emails", "fix_negative_salaries", "validate_dates",
    "analyze_missing_values", "generate_quality_report",
    "export_cleaned_data">>

main_steps ==
  <<"load_data", "explore_data", "clean_strings", "convert_data_types",
    "standardize_gender", "standardize_department", "standardize_currency",
    "standardize_country", "standardize_state", "validate_emails",
    "fix_negative_salaries", "validate_dates", "analyze_missing_values",
    "remove_duplicates", "generate_quality_report", "export_cleaned_data">>

(* pc is the position of the next call in main_steps; past the last one    *)
(* main has returned; 0 after an exception has been re-raised.             *)
At(step) == pc \in 1..Len(main_steps) /\ main_steps[pc] = step

Done == pc = Len(main_steps) + 1

Aborted == pc = 0

Called(step) == pc' = pc + 1 /\ trace' = Append(trace, step)

(* Faulty variant: the exception is reported and the run goes on *)
RaiseAndContinue(step, e) ==
  pc' = pc + 1 /\ trace' = Append(trace, step) /\ err' = e

Raise(step, e) == pc' = 0 /\ trace' = Append(trace, step) /\ err' = e

NoReport ==
  [salary_issues |-> 0 - 1, invalid_emails |-> 0 - 1,
   negative_salaries |-> 0 - 1, invalid_dates |-> 0 - 1,
   duplicate_ids |-> 0 - 1, duplicate_records |-> 0 - 1, removed |-> 0 - 1]

Suffixes == {".xlsx", ".xls", ".csv", ".txt"}

(* load_data: the path's suffix selects the reader; any other suffix, or a *)
(* file the reader cannot open, raises.                                    *)
LoadData ==
  /\ At("load_data")
  /\ \E suffix \in Suffixes, readable \in BOOLEAN :
       IF suffix \in {".xlsx", ".xls", ".csv"}
       THEN IF readable
            THEN /\ df' = source
                 /\ Called("load_data")
                 /\ UNCHANGED err
            ELSE /\ Raise("load_data", "FileNotFoundError")
                 /\ UNCHANGED df
       ELSE /\ Raise("load_data", "ValueError")
            /\ UNCHANGED df
  /\ UNCHANGED <<source, report, out>>

ExploreData ==
  /\ At("explore_data")
  /\ Called("explore_data")
  /\ UNCHANGED <<source, df, report, out, err>>

CleanStrings ==
  /\ At("clean_strings")
  /\ IF clean_strings_raises(df)
     THEN /\ Raise("clean_strings", "AttributeError")
          /\ UNCHANGED df
     ELSE /\ df' = clean_strings(df)
          /\ Called("clean_strings")
          /\ UNCHANGED err
  /\ UNCHANGED <<source, report, out>>

ConvertDataTypes ==
  /\ At("convert_data_types")
  /\ df' = convert_data_types(df)
  /\ report' = [report EXCEPT !.salary_issues =
                  Cardinality({i \in 1..Len(df') : IsNA(df'[i]["salary"])})]
  /\ Called("convert_data_types")
  /\ UNCHANGED <<source, out, err>>

StandardizeGender ==
  /\ At("standardize_gender")
  /\ df' = standardize_gender(df)
  /\ Called("standardize_gender")
  /\ UNCHANGED <<source, report, out, err>>

StandardizeDepartment ==
  /\ At("standardize_department")
  /\ df' = standardize_department(df)
  /\ Called("standardize_department")
  /\ UNCHANGED <<source, report, out, err>>

StandardizeCurrency ==
  /\ At("standardize_currency")
  /\ df' = standardize_currency(df)
  /\ Called("standardize_currency")
  /\ UNCHANGED <<source, report, out, err>>

StandardizeCountry ==
  /\ At("standardize_country")
  /\ df' = standardize_country(df)
  /\ Called("standardize_country")
  /\ UNCHANGED <<source, report, out, err>>

StandardizeState ==
  /\ At("standardize_state")
  /\ df' = standardize_state(df)
  /\ Called("standardize_state")
  /\ UNCHANGED <<source, report, out, err>>

ValidateEmails ==
  /\ At("validate_emails")
  /\ df' = validate_emails(df)
  /\ report' = [report EXCEPT !.invalid_emails =
                  Cardinality({i \in 1..Len(df') :
                                 df'[i]["email_valid"] = Bool(FALSE)})]
  /\ Called("validate_emails")
  /\ UNCHANGED <<source, out, err>>

FixNegativeSalaries ==
  /\ At("fix_negative_salaries")
  /\ report' = [report EXCEPT !.negative_salaries =
                  Cardinality(negative_salaries(df))]
  /\ df' = fix_negative_salaries(df)
  /\ Called("fix_negative_salaries")
  /\ UNCHANGED <<source, out, err>>

ValidateDates ==
  /\ At("validate_dates")
  /\ report' = [report EXCEPT !.invalid_dates = Cardinality(invalid_dates(df))]
  /\ df' = validate_dates(df)
  /\ Called("validate_dates")
  /\ UNCHANGED <<source, out, err>>

AnalyzeMissingValues ==
  /\ At("analyze_missing_values")
  /\ Called("analyze_missing_values")
  /\ UNCHANGED <<source, df, report, out, err>>

RemoveDuplicates ==
  /\ At("remove_duplicates")
  /\ df' = remove_duplicates(df)
  /\ report' = [report EXCEPT
                  !.duplicate_ids = Cardinality(duplicated(df)),
                  !.duplicate_records =
                     IF Cardinality(duplicated(df)) > 0
                     THEN Cardinality(duplicated_keep_false(df))
                     ELSE report.duplicate_records,
                  !.removed =
                     IF Cardinality(duplicated(df)) > 0
                     THEN Len(df) - Len(df')
                     ELSE report.removed]
  /\ Called("remove_duplicates")
  /\ UNCHANGED <<source, out, err>>

GenerateQualityReport ==
  /\ At("generate_quality_report")
  /\ Called("generate_quality_report")
  /\ UNCHANGED <<source, df, report, out, err>>

(* mkdir or the opening of the output file fails when the output directory
   is not writable: the exception leaves before any file is created *)
ExportCleanedData ==
  /\ At("export_cleaned_data")
  /\ \E writable \in BOOLEAN :
       IF writable
       THEN /\ out' = [written |-> TRUE, rows |-> export_rows(df)]
            /\ Called("export_cleaned_data")
            /\ UNCHANGED err
       ELSE /\ Raise("export_cleaned_data", "PermissionError")
            /\ UNCHANGED out
  /\ UNCHANGED <<source, df, report>>

Next ==
  \/ LoadData
  \/ ExploreData
  \/ CleanStrings
  \/ ConvertDataTypes
  \/ StandardizeGender
  \/ StandardizeDepartment
  \/ StandardizeCurrency
  \/ StandardizeCountry
  \/ StandardizeState
  \/ ValidateEmails
  \/ FixNegativeSalaries
  \/ ValidateDates
  \/ AnalyzeMissingValues
  \/ RemoveDuplicates
  \/ GenerateQualityReport
  \/ ExportCleanedData

-----------------------------------------------------------------------------
(* Input tables *)

DefaultRow ==
  [col \in Columns |->
     CASE col = "employee_id" -> Num(1)
       [] col = "first_name" -> Str(<<"a", "b">>)
       [] col = "last_name" -> Str(<<"b", "a">>)
       [] col = "email" -> Str(<<"a", "@", "b", ".", "a">>)
       [] col = "gender" -> Str(<<"M">>)
       [] col = "department" -> Str(<<"H.R">>)
       [] col = "currency" -> Str(<<"R">>)
       [] col = "country" -> Str(<<"SA">>)
       [] col = "state" -> Str(<<"KZN">>)
       [] col = "city" -> Str(<<"a", "b">>)
       [] col = "salary" -> Str(<<"4", "5">>)
       [] col = "manager_id" -> NA
       [] col = "hire_date" -> Str(<<"2020", "-", "01", "-", "05">>)
       [] col = "exit_date" -> NA
       [] col = "email_valid" -> Absent
       [] OTHER -> NA]

(* A row: the default row with the cells of payload p, key id, label idx *)
MakeRow(p, id, idx) ==
  [col \in Columns |->
     IF col = "index" THEN Num(idx)
     ELSE IF col = "employee_id" THEN id
     ELSE IF col \in DOMAIN p THEN p[col]
     ELSE DefaultRow[col]]

(* The tables of 1..rows rows in which at most one row carries a payload   *)
(* of wide and every other row a payload of narrow, with keys from ids;    *)
(* rows are labelled 0, 1, ... (RangeIndex).                               *)
TablesOf(rows, wide, narrow, ids) ==
  UNION {
    { [i \in 1..n |-> MakeRow(IF i = k THEN w ELSE f[i], g[i], i - 1)] :
        w \in wide, f \in [1..n -> narrow], g \in [1..n -> ids] } :
      n \in 1..rows, k \in 1..rows }

(* The tables of 1..rows rows with payloads from payloads and keys from ids *)
Tables(rows, payloads, ids) ==
  UNION {
    { [i \in 1..n |-> MakeRow(f[i], g[i], i - 1)] :
        f \in [1..n -> payloads], g \in [1..n -> ids] } :
      n \in 1..rows }

InitWith(tables) ==
  /\ source \in tables
  /\ df = <<>>
  /\ pc = 1
  /\ trace = <<>>
  /\ report = NoReport
  /\ out = [written |-> FALSE, rows |-> <<>>]
  /\ err = ""

Ids == {Num(1), Num(2)}

IdsOrMissing == Ids \cup {NA}

Padded(s) == {s, <<" ">> \o s \o <<" ">>}

(* Rows that differ in every field a validator looks at *)
MainPayloads ==
  { [salary |-> Str(<<"4", "5">>),
     hire_date |-> Str(<<"2020", "-", "01", "-", "05">>),
     exit_date |-> NA,
     email |-> Str(<<"a", "@", "b", ".", "a">>)],
    [salary |-> Str(<<"-", "4", ",", "5", "0", "0", ".", "0", "0">>),
     hire_date |-> Str(<<"2021", "-", "05", "-", "01">>),
     exit_date |-> Str(<<"2020", "-", "01", "-", "01">>),
     email |-> Str(<<"n", "o", "t", "-", "a", "n", "-", "e", "m", "a", "i", "l">>)],
    [salary |-> NA,
     hire_date |-> NA,
     exit_date |-> Str(<<"2020", "-", "01", "-", "01">>),
     email |-> NA] }

Init == InitWith(Tables(MaxRows, MainPayloads, IdsOrMissing))

Spec == Init /\ [][Next]_vars

(* Salary texts: padding, sign and body vary *)
SalaryBodies ==
  { <<"4", "5">>, <<"4", ",", "5", "0", "0", ".", "0", "0">>, <<"0">>,
    <<".", "5">>, <<"4", ".">>, <<"4", ".", "0", "5">>, <<"x">>, <<>>,
    <<"4", " ", "5">>, <<"4", ".", "5", ".", "0">>, <<"-", "4">>,
    <<"$", "4", "5">> }

SalaryTexts ==
  UNION { Padded(sg \o b) : sg \in {<<>>, <<"-">>}, b \in SalaryBodies }

SalaryPayloads == { [salary |-> Str(s)] : s \in SalaryTexts } \cup {[salary |-> NA]}

SalaryNarrow ==
  { [salary |-> Str(<<"4", "5">>)], [salary |-> Str(<<"-", "4", "5">>)] }

InitSalary == InitWith(TablesOf(MaxRowsWide, SalaryPayloads, SalaryNarrow, Ids))

SpecSalary == InitSalary /\ [][Next]_vars

(* Date texts: ISO 8601 and delimited, valid and not *)
DateTexts ==
  { <<"2020", "-", "01", "-", "05">>, <<"2021", "-", "05", "-", "01">>,
    <<"2020", "-", "01", "-", "01">>, <<"2020", "-", "13", "-", "01">>,
    <<"2020", "-", "02", "-", "31">>, <<"01", "/", "05", "/", "2021">>,
    <<"05", "/", "13", "/", "2020">>, <<"13", "/", "05", "/", "2020">>,
    <<"31", "/", "02", "/", "2021">>, <<"05", "/", "01", "/", "2020">>,
    <<"x">>, <<" ", "2020", "-", "01", "-", "05", " ">> }

DateCells == { Str(s) : s \in DateTexts } \cup {NA}

DatePayloads == [hire_date : DateCells, exit_date : DateCells]

DateNarrow ==
  { [hire_date |-> Str(<<"2021", "-", "05", "-", "01">>),
     exit_date |-> Str(<<"2020", "-", "01", "-", "01">>)] }

InitDates == InitWith(TablesOf(MaxRowsWide, DatePayloads, DateNarrow, Ids))

SpecDates == InitDates /\ [][Next]_vars

(* Texts with whitespace around and inside, one field at a time *)
TextPayload(col, c) ==
  [f \in {"first_name", "last_name", "city", "email", "gender", "department",
          "currency", "country", "state", "salary", "manager_id",
          "hire_date"} |-> IF f = col THEN c ELSE DefaultRow[f]]

NameTexts ==
  { <<"a", "b">>, <<" ", "a", "b">>, <<"a", "b", " ">>,
    <<"\t", "a", "b", "\n">>, <<" ", " ", "a", " ", "b", " ">>, <<" ">>, <<>>,
    <<"a", "B">>, <<"A", "B">>, <<"a", "-", "b">>, <<"a", "'", "b">>,
    <<"a", "1", "b">>, <<"a", " ", "b", "a">> }

TextPayloads ==
  UNION { { TextPayload(col, Str(s)) : s \in NameTexts } \cup
          { TextPayload(col, NA) } :
            col \in {"first_name", "last_name", "city", "email", "gender",
                     "department", "currency", "country", "state", "salary",
                     "manager_id", "hire_date"} }

TextNarrow == { TextPayload("first_name", Str(<<"a", "b">>)) }

InitText == InitWith(TablesOf(MaxRowsWide, TextPayloads, TextNarrow, Ids))

SpecText == InitText /\ [][Next]_vars

(* Category texts: keys of the mappings, near misses and unknown values *)
CategoryPayload(col, c) ==
  [f \in {"gender", "department", "currency", "country", "state"} |->
     IF f = col THEN c ELSE DefaultRow[f]]

CategoryCores(col) ==
  CASE col = "gender" ->
         { <<"M">>, <<"Male">>, <<"F">>, <<"Female">>, <<"Other">>, <<"m">>,
           <<"male">>, <<"X">>, <<"M", " ", "F">> }
    [] col = "department" ->
         { <<"HR">>, <<"H.R">>, <<"H.R.">>, <<"hr">>,
           <<"Human", " ", "Resources">>, <<"Human", " ", "Resource">>,
           <<"Human", " ", " ", "Resource">>, <<"IT">>, <<"IT", " ", "Support">>,
           <<"Ops">>, <<"Eng">>, <<"FIN">>, <<"Finance">>, <<"sales">>,
           <<"Sales">>, <<"SALES">>, <<"Marketing">> }
    [] col = "currency" ->
         { <<"R">>, <<"ZAR">>, <<"$">>, <<"USD">>, <<"£">>, <<"Â£">>,
           <<"GBP">>, <<"usd">>, <<"EUR">> }
    [] col = "country" ->
         { <<"south-africa">>, <<"South", " ", "Africa">>, <<"SA">>, <<"ZA">>,
           <<"UK">>, <<"U.K.">>, <<"uk">>, <<"United", " ", "Kingdom">>,
           <<"USA">>, <<"United", " ", "States">>, <<"Germany">> }
    [] col = "state" ->
         { <<"KZN">>, <<"kzn">>, <<"KwaZulu-Natal">>, <<"Western", " ", "Cape">>,
           <<"Gauteng">>, <<"Limpopo">>, <<"Free", " ", "State">> }

CategoryPayloads ==
  UNION { { CategoryPayload(col, Str(s)) :
              s \in UNION { Padded(b) : b \in CategoryCores(col) } } \cup
          { CategoryPayload(col, NA) } :
            col \in {"gender", "department", "currency", "country", "state"} }

CategoryNarrow == { CategoryPayload("gender", Str(<<"F">>)) }

InitCategory ==
  InitWith(TablesOf(MaxRowsWide, CategoryPayloads, CategoryNarrow, Ids))

SpecCategory == InitCategory /\ [][Next]_vars

(* Email texts: prefix, '@', text, '.', suffix, each present or not, with  *)
(* line breaks and capitals                                                *)
EmailParts == { <<>>, <<"a">>, <<"\n", "a">>, <<"a", "\n">> }

EmailTexts ==
  { p1 \o at \o p2 \o dot \o p3 :
      p1 \in EmailParts, at \in {<<"@">>, <<>>}, p2 \in EmailParts,
      dot \in {<<".">>, <<>>}, p3 \in EmailParts } \cup
  { <<" ", "A", "@", "B", ".", "a", " ">>, <<"a", "@", "@", "b", ".", "a">>,
    <<"a", "@", "b", ".", ".", "a">>, <<"a", ".", "b", "@", "a">>,
    <<"a", " ", "@", "b", ".", "a">> }

EmailPayloads == { [email |-> Str(s)] : s \in EmailTexts } \cup {[email |-> NA]}

EmailNarrow == { [email |-> Str(<<"a", "b">>)] }

InitEmail == InitWith(TablesOf(MaxRowsWide, EmailPayloads, EmailNarrow, Ids))

SpecEmail == InitEmail /\ [][Next]_vars

-----------------------------------------------------------------------------
(* Properties *)

(* step has been called and has returned *)
Completed(step) ==
  \E i \in 1..Len(trace) :
    trace[i] = step /\ ~(Aborted /\ i = Len(trace))

(* The row of the input file that row r of the table comes from *)
SourceRow(r) == source[r["index"].n + 1]

(* Rows of t whose key occurs in no earlier row of t *)
FirstOccurrences(t) ==
  {i \in 1..Len(t) :
     \A j \in 1..Len(t) : j < i => t[j]["employee_id"] # t[i]["employee_id"]}

KeysOf(t) == {t[i]["employee_id"] : i \in 1..Len(t)}

(* C1: after remove_duplicates, and in the exported file, no two records   *)
(* have the same employee_id, a missing employee_id being a key like any   *)
(* other; one record survives per key of the input.                        *)
C1_UniqueEmployeeId ==
  /\ Completed("remove_duplicates") =>
       /\ \A i, j \in 1..Len(df) :
            i # j => df[i]["employee_id"] # df[j]["employee_id"]
       /\ KeysOf(df) = KeysOf(source)
  /\ out.written =>
       /\ \A i, j \in 1..Len(out.rows) :
            i # j => out.rows[i]["employee_id"] # out.rows[j]["employee_id"]
       /\ Len(out.rows) = Cardinality(KeysOf(source))

(* Two rows share a key, a third has none: one row per key is exported,    *)
(* two records were involved in the duplication and one was removed.       *)
C1_Witness ==
  /\ Done
  /\ out.written
  /\ Len(source) = 3
  /\ source[1]["employee_id"] = NA
  /\ source[2]["employee_id"] = Num(2)
  /\ source[3]["employee_id"] = Num(2)
  /\ Len(out.rows) = 2
  /\ report.duplicate_records = 2
  /\ report.removed = 1

(* C7: remove_duplicates keeps exactly the rows whose key occurs in no     *)
(* earlier row, unchanged and in their order, and drops every other row.   *)
C7_KeepsFirstInOrder ==
  [][At("remove_duplicates") =>
       LET firsts == FirstOccurrences(df)
           Nth(k) == CHOOSE i \in firsts :
                       Cardinality({j \in firsts : j <= i}) = k
       IN  /\ Len(df') = Cardinality(firsts)
           /\ \A k \in 1..Len(df') : df'[k] = df[Nth(k)]]_vars

(* Rows 1 and 3 share a key: rows 1 and 2 survive, in that order. *)
C7_Witness ==
  /\ Completed("remove_duplicates")
  /\ Len(source) = 3
  /\ source[1]["employee_id"] = source[3]["employee_id"]
  /\ source[1]["employee_id"] # source[2]["employee_id"]
  /\ Len(df) = 2
  /\ df[1]["index"] = Num(0)
  /\ df[2]["index"] = Num(1)

(* The stages of the pipeline in their fixed order, export last *)
StageOrder ==
  <<"clean_strings", "convert_data_types", "standardize_gender",
    "standardize_department", "standardize_currency", "standardize_country",
    "standardize_state", "validate_emails", "fix_negative_salaries",
    "validate_dates", "remove_duplicates", "export_cleaned_data">>

StagesCalled ==
  SelectSeq(trace, LAMBDA s : \E i \in 1..Len(StageOrder) : StageOrder[i] = s)

(* C10: at every point of a run the stages called so far are the first     *)
(* stages of the fixed order, each once; a run that returns has called     *)
(* them all; the file is written only after remove_duplicates; and a stage *)
(* that has returned has passed over every row.                            *)
C10_StageOrder ==
  /\ Len(StagesCalled) <= Len(StageOrder)
  /\ StagesCalled = SubSeq(StageOrder, 1, Len(StagesCalled))
  /\ Done => StagesCalled = StageOrder
  /\ out.written => Completed("remove_duplicates")
  /\ Completed("clean_strings") =>
       \A i \in 1..Len(df) : df[i]["first_name"] = Str(Title(df[i]["first_name"].s))
  /\ Completed("convert_data_types") =>
       \A i \in 1..Len(df) : ~IsStr(df[i]["salary"])
  /\ Completed("validate_emails") =>
       \A i \in 1..Len(df) : df[i]["email_valid"].k = "bool"
  /\ Completed("fix_negative_salaries") =>
       \A i \in 1..Len(df) : ~CellLt(df[i]["salary"], Num(0))
  /\ Completed("validate_dates") =>
       \A i \in 1..Len(df) : ~CellLt(df[i]["exit_date"], df[i]["hire_date"])

C10_Witness ==
  /\ Done
  /\ out.written
  /\ Len(trace) = Len(main_steps)
  /\ StagesCalled = StageOrder
  /\ Len(source) = 3

(* What convert_data_types reads in the raw salary cell c *)
RawSalary(c) == ParseNumber(Strip(RemoveCommas(AsText(c))))

(* C2, as stated: every record that survives the pipeline has a salary     *)
(* that is a number >= 0.                                                  *)
C2_SalaryNonNegative ==
  Completed("remove_duplicates") =>
    \A i \in 1..Len(df) : df[i]["salary"].k = "num" /\ df[i]["salary"].n >= 0

(* C2, amended: every record that survives the pipeline has a salary >= 0  *)
(* or a missing salary, and the salary is missing only where the raw value *)
(* does not parse as a number.                                             *)
C2_SalaryNonNegativeOrMissing ==
  /\ Completed("remove_duplicates") =>
       \A i \in 1..Len(df) :
         \/ df[i]["salary"].k = "num" /\ df[i]["salary"].n >= 0
         \/ /\ IsNA(df[i]["salary"])
            /\ IsNA(RawSalary(SourceRow(df[i])["salary"]))
  /\ out.written =>
       \A i \in 1..Len(out.rows) :
         \/ out.rows[i]["salary"].k = "num" /\ out.rows[i]["salary"].n >= 0
         \/ IsNA(out.rows[i]["salary"])

(* A negative and an unparseable salary are both exported. *)
C2_Witness ==
  /\ Done
  /\ out.written
  /\ Len(out.rows) = 2
  /\ source[1]["salary"] = Str(<<"-", "4", "5">>)
  /\ out.rows[1]["salary"] = Num(4500)
  /\ source[2]["salary"] = Str(<<" ", "4", " ", "5", " ">>)
  /\ out.rows[2]["salary"] = NA

(* C9: a record whose salary text parses to a negative number has that     *)
(* number's absolute value after fix_negative_salaries ("-4,500.00" gives  *)
(* 4500.00), and the count reported is the number of records whose salary  *)
(* was negative before the correction.                                     *)
C9_NegativeSalaryFixed ==
  Completed("fix_negative_salaries") =>
    /\ \A i \in 1..Len(df) :
         LET raw == SourceRow(df[i])["salary"]
         IN  /\ CellLt(RawSalary(raw), Num(0)) =>
                  df[i]["salary"] = Num(0 - RawSalary(raw).n)
             /\ raw = Str(<<"-", "4", ",", "5", "0", "0", ".", "0", "0">>) =>
                  df[i]["salary"] = Num(450000)
    /\ report.negative_salaries =
         Cardinality({i \in 1..Len(source) :
                        CellLt(RawSalary(source[i]["salary"]), Num(0))})

C9_Witness ==
  /\ Completed("fix_negative_salaries")
  /\ ~Completed("remove_duplicates")
  /\ Len(df) = 2
  /\ source[1]["salary"] = Str(<<"-", "4", ",", "5", "0", "0", ".", "0", "0">>)
  /\ df[1]["salary"] = Num(450000)
  /\ df[2]["salary"] = Num(4500)
  /\ report.negative_salaries = 1

(* C3, as stated: every surviving record with an exit_date has             *)
(* exit_date >= hire_date.                                                 *)
C3_ExitNotBeforeHire ==
  Completed("remove_duplicates") =>
    \A i \in 1..Len(df) :
      ~IsNA(df[i]["exit_date"]) =>
        /\ df[i]["hire_date"].k = "date"
        /\ df[i]["exit_date"].n >= df[i]["hire_date"].n

(* C3, amended: every surviving record with an exit_date and a hire_date   *)
(* has exit_date >= hire_date; an exit_date before the hire_date has       *)
(* become missing.                                                         *)
C3_ExitNotBeforeHireWhenBothPresent ==
  Completed("remove_duplicates") =>
    \A i \in 1..Len(df) :
      /\ df[i]["hire_date"].k \in {"date", "na"}
      /\ df[i]["exit_date"].k \in {"date", "na"}
      /\ (~IsNA(df[i]["exit_date"]) /\ ~IsNA(df[i]["hire_date"])) =>
           df[i]["exit_date"].n >= df[i]["hire_date"].n
      /\ ( /\ SourceRow(df[i])["hire_date"] = Str(<<"2021", "-", "05", "-", "01">>)
           /\ SourceRow(df[i])["exit_date"] = Str(<<"2020", "-", "01", "-", "01">>) )
           => IsNA(df[i]["exit_date"])

(* One record lost its exit_date, another kept an exit_date read day first *)
C3_Witness ==
  /\ Done
  /\ Len(df) = 2
  /\ source[1]["hire_date"] = Str(<<"2021", "-", "05", "-", "01">>)
  /\ source[1]["exit_date"] = Str(<<"2020", "-", "01", "-", "01">>)
  /\ IsNA(df[1]["exit_date"])
  /\ source[2]["hire_date"] = Str(<<"05", "/", "01", "/", "2020">>)
  /\ source[2]["exit_date"] = Str(<<"05", "/", "13", "/", "2020">>)
  /\ df[2]["hire_date"] = Date(20200105)
  /\ df[2]["exit_date"] = Date(20200513)

NoEdgeWhitespace(s) ==
  s = <<>> \/ (s[1] \notin Whitespace /\ s[Len(s)] \notin Whitespace)

(* C4: from the end of clean_strings on, in the table and in the exported  *)
(* file, no text value starts or ends with whitespace.                     *)
C4_NoEdgeWhitespace ==
  /\ Completed("clean_strings") =>
       \A i \in 1..Len(df) : \A col \in Columns :
         IsStr(df[i][col]) => NoEdgeWhitespace(df[i][col].s)
  /\ out.written =>
       \A i \in 1..Len(out.rows) : \A col \in DOMAIN out.rows[i] :
         IsStr(out.rows[i][col]) => NoEdgeWhitespace(out.rows[i][col].s)

C4_Witness ==
  /\ Done
  /\ out.written
  /\ Len(source) = 2
  /\ Len(out.rows) = 2
  /\ source[1]["department"] = Str(<<"\t", "a", "b", "\n">>)
  /\ out.rows[1]["department"] = Str(<<"a", "b">>)
  /\ source[2]["first_name"] = Str(<<"a", "b">>)

-----------------------------------------------------------------------------
(* scripts/clean_employee_data.py: the department and currency replace *)

script_department_mapping ==
  ("HR" :> <<"Human", " ", "Resource">>) @@
  ("H.R" :> <<"Human", " ", "Resource">>) @@
  ("Human Resources" :> <<"Human", " ", "Resource">>) @@
  ("IT" :> <<"Information", " ", "Technology">>) @@
  ("Ops" :> <<"Operations">>) @@ ("Eng" :> <<"Engineering">>) @@
  ("FIN" :> <<"Finance">>) @@ ("sales" :> <<"Sales">>)

script_currency_mapping ==
  ("R" :> <<"ZAR">>) @@ ("ZAR" :> <<"ZAR">>) @@ ("$" :> <<"USD">>) @@
  ("USD" :> <<"USD">>) @@ ("£" :> <<"GBP">>) @@ ("Â£" :> <<"GBP">>)

script_replace(t) ==
  SetColumn(
    SetColumn(t, "department",
      [i \in 1..Len(t) |-> Replace(script_department_mapping, t[i]["department"])]),
    "currency",
    [i \in 1..Len(t) |-> Replace(script_currency_mapping, t[i]["currency"])])

-----------------------------------------------------------------------------
CategoryColumns == {"gender", "department", "currency", "country", "state"}

MappingOf(col) ==
  CASE col = "gender" -> gender_mapping
    [] col = "department" -> dept_mapping
    [] col = "currency" -> currency_map
    [] col = "country" -> country_mapping
    [] col = "state" -> state_mapping

(* The canonical values of each field *)
Canonical(col) ==
  CASE col = "gender" -> {"Male", "Female", "Other"}
    [] col = "department" ->
         {"Human Resource", "Information Technology", "Operations",
          "Engineering", "Finance", "Sales"}
    [] col = "currency" -> {"ZAR", "USD", "GBP"}
    [] col = "country" -> {"South Africa", "United Kingdom", "United States"}
    [] col = "state" -> {"KwaZulu-Natal", "Western Cape", "Gauteng", "Limpopo"}

(* s without the whitespace before its first and after its last            *)
(* non-whitespace segment                                                  *)
Trimmed(s) ==
  LET solid == {i \in 1..Len(s) : s[i] \notin Whitespace}
  IN  IF solid = {} THEN <<>>
      ELSE SubSeq(s, CHOOSE i \in solid : \A j \in solid : i <= j,
                     CHOOSE i \in solid : \A j \in solid : j <= i)

(* C5: after the five standardize steps a raw value whose trimmed text is  *)
(* a key of the field's mapping has become the canonical value mapped to   *)
(* it, and any other raw value is its trimmed text, unchanged; matching is *)
(* exact and case-sensitive ("H.R" becomes "Human Resource").              *)
C5_CanonicalOrRaw ==
  Completed("standardize_state") =>
    \A i \in 1..Len(df) : \A col \in CategoryColumns :
      LET raw == SourceRow(df[i])[col]
          v   == df[i][col]
      IN  IF IsStr(raw)
          THEN /\ IsStr(v)
               /\ IF Join(Trimmed(raw.s)) \in DOMAIN MappingOf(col)
                  THEN /\ v.s = MappingOf(col)[Join(Trimmed(raw.s))]
                       /\ Join(v.s) \in Canonical(col)
                  ELSE v.s = Trimmed(raw.s)
               /\ Join(Trimmed(raw.s)) = "H.R" /\ col = "department" =>
                    Join(v.s) = "Human Resource"
          ELSE v = NA \/ v = Str(<<"n", "a", "n">>)

(* A key in padding is mapped, a differently cased key is not. *)
C5_Witness ==
  /\ Completed("standardize_state")
  /\ Len(df) = 2
  /\ source[1]["department"] = Str(<<" ", "hr", " ">>)
  /\ df[1]["department"] = Str(<<"hr">>)
  /\ source[2]["department"] = Str(<<"H.R">>)
  /\ df[2]["department"] = Str(<<"Human", " ", "Resource">>)

StandardizeAll(t) ==
  standardize_state(standardize_country(standardize_currency(
    standardize_department(standardize_gender(t)))))

(* C6: the five standardize steps applied to their own output change       *)
(* nothing; so does the department and currency replace of                 *)
(* clean_employee_data.py applied to its own output.                       *)
C6_StandardizeIdempotent ==
  /\ Completed("standardize_state") => StandardizeAll(df) = df
  /\ script_replace(script_replace(source)) = script_replace(source)

(* The first pass did change a value. *)
C6_Witness ==
  /\ Completed("standardize_state")
  /\ ~Completed("validate_emails")
  /\ Len(df) = 2
  /\ source[1]["currency"] = Str(<<"Â£">>)
  /\ df[1]["currency"] = Str(<<"GBP">>)
  /\ StandardizeAll(df) = df
  /\ script_replace(source) # source

(* s is a non-empty prefix, '@', a non-empty text, '.', a non-empty suffix *)
PrefixAtTextDotSuffix(s) ==
  \E i \in 1..Len(s), j \in 1..Len(s) :
    /\ s[i] = "@" /\ s[j] = "."
    /\ 1 < i /\ i + 1 < j /\ j < Len(s)

(* The same, with no line break in the prefix, in the text between '@' and *)
(* '.', or right after the '.'                                             *)
PrefixAtTextDotSuffixOnOneLine(s) ==
  \E i \in 1..Len(s), j \in 1..Len(s) :
    /\ s[i] = "@" /\ s[j] = "."
    /\ 1 < i /\ i + 1 < j /\ j < Len(s)
    /\ \A k \in 1..(j + 1) : k \notin {i, j} => s[k] # "\n"

(* The email of a raw cell, trimmed and lower-cased *)
CleanEmail(c) == Lower(Trimmed(AsText(c)))

(* validate_emails and the export keep every record, valid or not: the     *)
(* table keeps its rows, and the file has the first record of every key.   *)
EmailRecordsRetained ==
  /\ (Completed("validate_emails") /\ ~Completed("remove_duplicates")) =>
       /\ Len(df) = Len(source)
       /\ \A i \in 1..Len(df) : df[i]["index"] = Num(i - 1)
  /\ out.written =>
       \A i \in FirstOccurrences(source) :
         \E k \in 1..Len(out.rows) :
           /\ out.rows[k]["employee_id"] = source[i]["employee_id"]
           /\ out.rows[k]["email"] = Str(CleanEmail(source[i]["email"]))

-----------------------------------------------------------------------------
(* Fatal errors *)

(* The exceptions that leave main: load_data's own ValueError, the reader's
   or the writer's I/O error, and the .str accessor's AttributeError *)
FatalErrors ==
  {"ValueError", "FileNotFoundError", "AttributeError", "PermissionError"}

(* C11: a run has an exception exactly when it has aborted; an aborted run  *)
(* called the stages up to the failing one and none after it, leaves one of *)
(* the fatal errors to the caller and has written no output file; and an    *)
(* output file exists only when every stage of main has returned.           *)
C11_AbortLeavesNoOutput ==
  /\ (err # "") <=> Aborted
  /\ Aborted =>
       /\ err \in FatalErrors
       /\ trace # <<>>
       /\ trace = SubSeq(main_steps, 1, Len(trace))
       /\ ~out.written
       /\ out.rows = <<>>
  /\ out.written =>
       /\ Done
       /\ err = ""
       /\ trace = main_steps

(* An exception in a stage between load and export: clean_strings raises on *)
(* a loaded table, the run stops there and nothing is written.              *)
C11_Witness ==
  /\ Aborted
  /\ err = "AttributeError"
  /\ trace = <<"load_data", "explore_data", "clean_strings">>
  /\ Len(df) > 0
  /\ ~out.written

-----------------------------------------------------------------------------
(* Data-quality problems *)

(* After convert_data_types every record of the input is still in the table *)
(* and its salary, manager_id, hire_date and exit_date are typed values or  *)
(* the missing marker, never text.                                          *)
ConvertCoercesInPlace ==
  (Completed("convert_data_types") /\ ~Completed("remove_duplicates")) =>
    /\ Len(df) = Len(source)
    /\ \A i \in 1..Len(df) :
         /\ df[i]["index"] = Num(i - 1)
         /\ df[i]["salary"].k \in {"num", "na"}
         /\ df[i]["manager_id"].k \in {"num", "na"}
         /\ df[i]["hire_date"].k \in {"date", "na"}
         /\ df[i]["exit_date"].k \in {"date", "na"}

(* The errors of reading the input and writing the output *)
InputOutputErrors == {"ValueError", "FileNotFoundError", "PermissionError"}

(* C12: no content of a table with the expected columns aborts the run:     *)
(* convert_data_types coerces in place and keeps every record, and a run    *)
(* aborts only on an error of reading the input or writing the output.      *)
C12_DataQualityNeverAborts ==
  /\ ConvertCoercesInPlace
  /\ Aborted => err \in InputOutputErrors

-----------------------------------------------------------------------------
(* Letter case of names, cities and emails *)

TitleColumns == {"first_name", "last_name", "city"}

(* r is t with every letter put in lower case *)
IsLowerCaseOf(r, t) ==
  /\ Len(r) = Len(t)
  /\ \A j \in 1..Len(t) : r[j] = ToLower(t[j])

(* r is t in title case where a word starts at the first character and      *)
(* after whitespace, and nowhere else                                       *)
IsTitleOfWhitespaceWords(r, t) ==
  /\ Len(r) = Len(t)
  /\ \A j \in 1..Len(t) :
       r[j] = IF j = 1 \/ t[j - 1] \in Whitespace
              THEN ToUpper(t[j]) ELSE ToLower(t[j])

(* r is t in title case where a word starts at the first character and      *)
(* after every character that is not a letter                               *)
IsTitleOfLetterRuns(r, t) ==
  /\ Len(r) = Len(t)
  /\ \A j \in 1..Len(t) :
       r[j] = IF j = 1 \/ ~IsCased(t[j - 1])
              THEN ToUpper(t[j]) ELSE ToLower(t[j])

(* C13: from the end of clean_strings on, every first_name, last_name and   *)
(* city that was a string in the input is its trimmed text in title case    *)
(* with whitespace as the only word boundary, and every email that was a    *)
(* string is its trimmed text in lower case.                                *)
C13_TitleCaseOfWhitespaceWords ==
  Completed("clean_strings") =>
    \A i \in 1..Len(df) :
      /\ \A col \in TitleColumns :
           IsStr(SourceRow(df[i])[col]) =>
             /\ IsStr(df[i][col])
             /\ IsTitleOfWhitespaceWords(df[i][col].s,
                                          Trimmed(SourceRow(df[i])[col].s))
      /\ IsStr(SourceRow(df[i])["email"]) =>
           /\ IsStr(df[i]["email"])
           /\ IsLowerCaseOf(df[i]["email"].s,
                             Trimmed(SourceRow(df[i])["email"].s))

(* C13, amended: from the end of clean_strings on, every first_name,        *)
(* last_name and city that was a string in the input is its trimmed text    *)
(* with each letter in upper case when it is the first character or follows *)
(* a character that is not a letter, and in lower case when it follows a    *)
(* letter; every email that was a string is its trimmed text in lower case. *)
C13_TitleCaseOfLetterRuns ==
  Completed("clean_strings") =>
    \A i \in 1..Len(df) :
      /\ \A col \in TitleColumns :
           IsStr(SourceRow(df[i])[col]) =>
             /\ IsStr(df[i][col])
             /\ IsTitleOfLetterRuns(df[i][col].s,
                                     Trimmed(SourceRow(df[i])[col].s))
      /\ IsStr(SourceRow(df[i])["email"]) =>
           /\ IsStr(df[i]["email"])
           /\ IsLowerCaseOf(df[i]["email"].s,
                             Trimmed(SourceRow(df[i])["email"].s))

(* A name with an apostrophe has gone through the whole run *)
C13_Witness ==
  /\ Done
  /\ Len(df) >= 1
  /\ SourceRow(df[1])["last_name"] = Str(<<"a", "'", "b">>)
  /\ df[1]["last_name"] = Str(<<"A", "'", "B">>)
  /\ df[1]["email"] = Str(<<"a", "@", "b", ".", "a">>)

-----------------------------------------------------------------------------
(* Frame of the three validation steps *)

(* The step from df to df' keeps every row in its place and every cell but  *)
(* those of column col                                                      *)
ChangesOnly(col) ==
  /\ Len(df') = Len(df)
  /\ \A i \in 1..Len(df) : \A c \in Columns \ {col} : df'[i][c] = df[i][c]

ValidateEmailsFrame ==
  /\ ChangesOnly("email_valid")
  /\ \A i \in 1..Len(df) : df'[i]["email_valid"].k = "bool"

FixNegativeSalariesFrame ==
  /\ ChangesOnly("salary")
  /\ \A i \in 1..Len(df) :
       IF df[i]["salary"].k = "num" /\ df[i]["salary"].n < 0
       THEN df'[i]["salary"] = Num(0 - df[i]["salary"].n)
       ELSE df'[i]["salary"] = df[i]["salary"]

ValidateDatesFrame ==
  /\ ChangesOnly("exit_date")
  /\ \A i \in 1..Len(df) :
       IF /\ df[i]["exit_date"].k = "date"
          /\ df[i]["hire_date"].k = "date"
          /\ df[i]["exit_date"].n < df[i]["hire_date"].n
       THEN df'[i]["exit_date"] = NA
       ELSE df'[i]["exit_date"] = df[i]["exit_date"]

(* C14: the step of validate_emails keeps every row in its place and        *)
(* changes only email_valid, which it sets to a boolean; the step of        *)
(* fix_negative_salaries changes only salary, negating the salaries below   *)
(* zero and keeping the others, missing ones included; the step of          *)
(* validate_dates changes only exit_date, setting it to missing where it is *)
(* before hire_date and keeping it elsewhere, and never touches hire_date.  *)
C14_ValidatorsChangeOwnFieldOnly ==
  [][/\ At("validate_emails") => ValidateEmailsFrame
     /\ At("fix_negative_salaries") => FixNegativeSalariesFrame
     /\ At("validate_dates") => ValidateDatesFrame]_vars

(* The three steps have run on a table where each had something to do and   *)
(* something to leave alone                                                 *)
C14_Witness ==
  /\ At("analyze_missing_values")
  /\ Len(df) = 3
  /\ report.invalid_emails = 2
  /\ report.negative_salaries = 1
  /\ report.invalid_dates = 1
  /\ df[1]["email_valid"] = Bool(FALSE)
  /\ df[1]["salary"] = Num(450000)
  /\ df[1]["hire_date"] = Date(20210501)
  /\ IsNA(df[1]["exit_date"])
  /\ df[2]["salary"] = Num(4500)
  /\ df[2]["email_valid"] = Bool(TRUE)
  /\ IsNA(df[3]["salary"])
  /\ IsNA(df[3]["hire_date"])
  /\ df[3]["exit_date"] = Date(20200101)
====
